---- MODULE Spec2Model ----
(***************************************************************************)
(* Model of the Ethereum wallet server (rust-rest-llm-ether).              *)
(*                                                                         *)
(* The process boots (main.rs): it initializes the wallet from the account *)
(* file, validates it, tries to connect to the node once and then serves   *)
(* HTTP requests.  Each handler is modelled from one suspension point      *)
(* (.await) to the next.  The node and the file system are the             *)
(* environment: a node call may succeed or fail, opening the account file  *)
(* for writing may fail, and the write that BufWriter performs when it is  *)
(* dropped may stop after any prefix of the record.  The file system is    *)
(* assumed readable (no read-side I/O error is modelled).  The entropy     *)
(* source of the key generator may be unavailable.  The two RwLocks of     *)
(* AppState are modelled by the sets of slots holding their guards.        *)
(*                                                                         *)
(* Texts (the String fields of Account and of the requests) are records    *)
(* [form, n]: the value n they denote and the textual form they are        *)
(* written in, so that parsing and formatting are real conversions.        *)
(***************************************************************************)
EXTENDS Integers, Sequences, FiniteSets, TLC

\* ------------------------------------------------------------- bounds ----
MaxKey == 2         \* secret scalars are 1..MaxKey
NReq == 2           \* request slots served concurrently
MaxRestarts == 1    \* restarts of the process after an exit or a crash

Scalars == 1..MaxKey
Req == 1..NReq

\* -------------------------------------------------- keys and addresses ----
\* PublicKey::from_secret_key: an injective map from scalars to curve points.
PubOf(s) == (3 * s) % 7

\* public_key_to_address applied to the point: keccak256 of the 64 bytes
\* after the 0x04 tag, low-order 20 bytes.
public_key_to_address(p) == (5 * p + 1) % 7

Points == {PubOf(s) : s \in Scalars}
Addrs == {public_key_to_address(p) : p \in Points}

Text(f, n) == [form |-> f, n |-> n]
NoText == Text("none", 0)
BadText == Text("bad", 0)

\* SecretKey Display / to_string: 64 lowercase hex digits.
SecretToString(s) == Text("hex", s)
\* PublicKey Display / to_string: the compressed encoding in hex.
PublicToString(p) == Text("compressed", p)
\* format!("{:?}", address): "0x" followed by 40 lowercase hex digits.
FormatAddress(a) == Text("0xlower", a)

Ok(v) == [ok |-> TRUE, val |-> v]
Err(kind) == [ok |-> FALSE, err |-> kind]
\* An AppError variant built with format!("<prefix>: {}", e): the variant, the
\* prefix and the text of the underlying error e.
ErrMsg(kind, prefix, e) == [ok |-> FALSE, err |-> kind, prefix |-> prefix, text |-> e]

\* SecretKey::from_str
ParseSecret(t) == IF t.form = "hex" THEN Ok(t.n) ELSE Err("parse")
\* PublicKey::from_str accepts the compressed and the uncompressed encoding.
ParsePublic(t) ==
    IF t.form \in {"compressed", "uncompressed"} THEN Ok(t.n) ELSE Err("parse")
\* Address::from_str accepts 40 hex digits with or without the 0x prefix.
ParseAddress(t) ==
    IF t.form \in {"0xlower", "noprefix"} THEN Ok(t.n) ELSE Err("parse")

SecretTexts == {SecretToString(s) : s \in Scalars} \cup {BadText}
PublicTexts ==
    {Text(f, p) : f \in {"compressed", "uncompressed"}, p \in Points} \cup {BadText}
AddressTexts ==
    {Text(f, a) : f \in {"0xlower", "noprefix"}, a \in Addrs} \cup {BadText}

\* ------------------------------------------------------------ Account ----
Account(sk, pk, addr) ==
    [secret_key |-> sk, public_key |-> pk, public_address |-> addr]

NoAccount == Account(NoText, NoText, NoText)

Accounts ==
    {Account(sk, pk, ad) : sk \in SecretTexts, pk \in PublicTexts, ad \in AddressTexts}

\* WalletService::generate_keypair: JitterRng::new_with_timer(get_nstime)
\* is built without test_timer(), so the state of the entropy source
\* (entropy: the timer delivers jitter) is never looked at, and the pair made
\* of the scalar s the generator yields is returned with Ok.
generate_keypair(s, entropy) == Ok(<<s, PubOf(s)>>)

\* WalletService::create_account
create_account(s, entropy) ==
    LET kp == generate_keypair(s, entropy) IN
    IF ~kp.ok THEN kp
    ELSE Ok(Account(SecretToString(kp.val[1]),
                    PublicToString(kp.val[2]),
                    FormatAddress(public_key_to_address(kp.val[2]))))

\* WalletService::get_secret_key
get_secret_key(account) ==
    IF ParseSecret(account.secret_key).ok
    THEN Ok(ParseSecret(account.secret_key).val)
    ELSE Err("InvalidPrivateKey")

\* WalletService::get_public_key
get_public_key(account) ==
    IF ParsePublic(account.public_key).ok
    THEN Ok(ParsePublic(account.public_key).val)
    ELSE Err("InvalidPublicKey")

\* validate_account without its second check (the address is not compared).
validate_account_no_address_check(account) ==
    LET sk == get_secret_key(account)
        pk == get_public_key(account)
    IN  IF ~sk.ok THEN sk
        ELSE IF ~pk.ok THEN pk
        ELSE IF PubOf(sk.val) # pk.val THEN Err("ValidationError")
        ELSE Ok(TRUE)

\* WalletService::validate_account
validate_account(account) ==
    LET sk == get_secret_key(account)
        pk == get_public_key(account)
    IN  IF ~sk.ok THEN sk
        ELSE IF ~pk.ok THEN pk
        ELSE IF PubOf(sk.val) # pk.val THEN Err("ValidationError")
        ELSE IF FormatAddress(public_key_to_address(pk.val)) # account.public_address
             THEN Err("ValidationError")
        ELSE Ok(TRUE)

\* ------------------------------------------------------ the account file ----
\* The file is a sequence of JSON tokens; a write that stops early leaves a
\* proper prefix.
Tok(k, v) == [k |-> k, v |-> v]

\* serde_json::to_writer_pretty of an Account.
Serialize(account) ==
    << Tok("{", NoText),
       Tok("secret_key", account.secret_key),
       Tok("public_key", account.public_key),
       Tok("public_address", account.public_address),
       Tok("}", NoText) >>

\* serde_json::from_reader into an Account.
Deserialize(content) ==
    IF /\ Len(content) = 5
       /\ content[1].k = "{"
       /\ content[2].k = "secret_key"
       /\ content[3].k = "public_key"
       /\ content[4].k = "public_address"
       /\ content[5].k = "}"
    THEN Ok(Account(content[2].v, content[3].v, content[4].v))
    ELSE Err("syntax")

AbsentFile == [exists |-> FALSE, content |-> <<>>]
FileOf(content) == [exists |-> TRUE, content |-> content]

\* WalletService::load_account
load_account(f) ==
    IF ~f.exists THEN Err("WalletNotFound")
    ELSE IF ~Deserialize(f.content).ok THEN Err("WalletLoadFailed")
    ELSE Ok(Deserialize(f.content).val)

\* WalletService::save_account, first half: OpenOptions write/create/truncate.
\* The file it yields is empty whatever it held before.
save_account_open(f, openOk) ==
    IF openOk THEN Ok(FileOf(<<>>)) ELSE Err("WalletCreationFailed")

\* WalletService::save_account, second half: to_writer_pretty fills the
\* BufWriter (the record is smaller than its buffer), and the BufWriter is
\* dropped: the drop writes the buffer out and ignores a write error, so the
\* file holds the first `written` tokens and the function returns Ok.
save_account_flush(account, written) ==
    [file |-> FileOf(SubSeq(Serialize(account), 1, written)), result |-> Ok(TRUE)]

\* utils::path_exists
path_exists(f) == f.exists

\* initialize_wallet creating a wallet whenever no wallet could be loaded.
initialize_wallet_recreating(f) == IF load_account(f).ok THEN "load" ELSE "create"

\* WalletService::initialize_wallet: the branch it takes.
initialize_wallet(f) == IF path_exists(f) THEN "load" ELSE "create"

\* main.rs initialize_wallet without the call of validate_account.
main_initialize_wallet_unvalidated(initResult) == initResult

\* main.rs initialize_wallet, after WalletService::initialize_wallet returned.
main_initialize_wallet(initResult) ==
    IF ~initResult.ok THEN initResult
    ELSE IF ~validate_account(initResult.val).ok THEN validate_account(initResult.val)
    ELSE initResult

\* -------------------------------------------------------- Web3Service ----
\* Option<T>: <<>> is None, <<v>> is Some(v).
None == <<>>
Some(v) == <<v>>

\* A service function runs to its next .await or to its return.
Return(res) == [next |-> "done", result |-> res, tx |-> None]
Await(what, tx) == [next |-> what, result |-> Err("none"), tx |-> tx]

\* The match on network_id in get_network_info.
network_name(id) ==
    CASE id = 1 -> "Mainnet"
      [] id = 3 -> "Ropsten"
      [] id = 4 -> "Rinkeby"
      [] id = 5 -> "Goerli"
      [] id = 11155111 -> "Sepolia"
      [] OTHER -> "Unknown"

\* Config default: ethereum.rpc_url (one endpoint is enough for the model).
RpcUrl == "wss://node"

\* Web3Service::get_network_info up to web3.eth().block_number().await
get_network_info_begin(conn) ==
    IF ~conn THEN Return(Err("Web3NotAvailable")) ELSE Await("await_node", None)

\* get_network_info propagating the failure of the block number call with `?`.
get_network_info_end_propagating(netId, reply) ==
    IF ~reply.ok THEN Err("Web3ConnectionFailed")
    ELSE Ok([network_id |-> netId,
             network_name |-> network_name(netId),
             rpc_url |-> RpcUrl,
             block_number |-> Some(reply.val)])

\* Web3Service::get_network_info after the block number call returned.
get_network_info_end(netId, reply) ==
    Ok([network_id |-> netId,
        network_name |-> network_name(netId),
        rpc_url |-> RpcUrl,
        block_number |-> IF reply.ok THEN Some(reply.val) ELSE None])

\* get_balance handing the text to the node without parsing it first.
get_balance_begin_unparsed(conn, address) ==
    IF ~conn THEN Return(Err("Web3NotAvailable")) ELSE Await("await_node", None)

\* Web3Service::get_balance up to web3.eth().balance(addr, None).await
get_balance_begin(conn, address) ==
    IF ~conn THEN Return(Err("Web3NotAvailable"))
    ELSE IF ~ParseAddress(address).ok THEN Return(Err("InvalidAddress"))
    ELSE Await("await_node", None)

\* get_balance with unwrap_or_default() on the node's answer.
get_balance_end_defaulting(address, netId, reply) ==
    Ok([address |-> address,
        balance_wei |-> IF reply.ok THEN reply.val ELSE 0,
        network_id |-> netId])

\* Web3Service::get_balance after the balance call returned.
get_balance_end(address, netId, reply) ==
    IF ~reply.ok THEN Err("BalanceQueryFailed")
    ELSE Ok([address |-> address, balance_wei |-> reply.val, network_id |-> netId])

\* create_transaction with the commented-out gas customization applied.
create_transaction_with_overrides(to, amount_eth, gas_price, gas_limit) ==
    IF ~ParseAddress(to).ok THEN Err("InvalidAddress")
    ELSE Ok([to |-> ParseAddress(to).val, amount |-> amount_eth,
             gas_price |-> gas_price, gas |-> gas_limit])

\* Web3Service::create_transaction: the gas overrides are not used.
create_transaction(to, amount_eth, gas_price, gas_limit) ==
    IF ~ParseAddress(to).ok THEN Err("InvalidAddress")
    ELSE Ok([to |-> ParseAddress(to).val, amount |-> amount_eth,
             gas_price |-> None, gas |-> None])

\* send_transaction building the transaction before it looks at the connection.
send_transaction_begin_build_first(conn, to, amount_eth, gas_price, gas_limit) ==
    LET tx == create_transaction(to, amount_eth, gas_price, gas_limit) IN
    IF ~tx.ok THEN Return(tx)
    ELSE IF ~conn THEN Return(Err("Web3NotAvailable"))
    ELSE Await("await_sign", Some(tx.val))

\* Web3Service::send_transaction up to sign_transaction(..).await
send_transaction_begin(conn, to, amount_eth, gas_price, gas_limit) ==
    IF ~conn THEN Return(Err("Web3NotAvailable"))
    ELSE LET tx == create_transaction(to, amount_eth, gas_price, gas_limit) IN
         IF ~tx.ok THEN Return(tx) ELSE Await("await_sign", Some(tx.val))

\* send_transaction going on to submit whatever signing returned.
send_transaction_signed_unchecked(tx, reply) == Await("await_send", tx)

\* Web3Service::send_transaction after signing returned, up to
\* send_raw_transaction(..).await
send_transaction_signed(tx, reply) ==
    IF ~reply.ok
    THEN Return(ErrMsg("TransactionFailed", "Failed to sign transaction", reply.err))
    ELSE Await("await_send", tx)

\* Web3Service::send_transaction after send_raw_transaction returned.
send_transaction_end(to, amount_eth, from, tx, reply) ==
    IF ~reply.ok
    THEN ErrMsg("TransactionFailed", "Failed to send transaction", reply.err)
    ELSE Ok([transaction_hash |-> reply.val, from |-> from, to |-> to,
             amount_eth |-> amount_eth, gas_price |-> tx[1].gas_price,
             gas_limit |-> None, status |-> "Pending"])

\* Web3Service::estimate_gas up to web3.eth().estimate_gas(tx, None).await
estimate_gas_begin(conn, to, amount_eth, from) ==
    IF ~conn THEN Return(Err("Web3NotAvailable"))
    ELSE IF ~ParseAddress(to).ok THEN Return(Err("InvalidAddress"))
    ELSE IF ~ParseAddress(from).ok THEN Return(Err("InvalidAddress"))
    ELSE Await("await_node", None)

\* estimate_gas passing the node's error on with `?` (From<web3::Error>).
estimate_gas_end_converting(reply) ==
    IF ~reply.ok THEN Err("Web3ConnectionFailed") ELSE Ok(reply.val)

\* Web3Service::estimate_gas after the call returned.
estimate_gas_end(reply) ==
    IF ~reply.ok THEN ErrMsg("TransactionFailed", "Gas estimation failed", reply.err)
    ELSE Ok(reply.val)

\* get_gas_price answering a fixed price when there is no connection.
get_gas_price_begin_fallback(conn) ==
    IF ~conn THEN Return(Ok(0)) ELSE Await("await_node", None)

\* Web3Service::get_gas_price up to web3.eth().gas_price().await
get_gas_price_begin(conn) ==
    IF ~conn THEN Return(Err("Web3NotAvailable")) ELSE Await("await_node", None)

\* Web3Service::get_gas_price after the call returned.
get_gas_price_end(reply) ==
    IF ~reply.ok THEN Err("Web3ConnectionFailed") ELSE Ok(reply.val)

\* ------------------------------------------------------------ handlers ----
\* str::parse::<f64>() of the :amount path segment.
ParseAmount(t) == IF t.form = "decimal" THEN Ok(t.n) ELSE Err("parse")

\* Account::to_account_info
to_account_info(acct) ==
    [public_key |-> acct.public_key, address |-> acct.public_address]

\* handlers::wallet_handler::estimate_gas, with both read guards held.
estimate_gas_handler(conn, acct, to, amount) ==
    IF ~ParseAmount(amount).ok THEN Return(Err("ValidationError"))
    ELSE estimate_gas_begin(conn, to, ParseAmount(amount).val, acct.public_address)

\* handlers::wallet_handler::send_transaction, with both read guards held.
send_transaction_handler(conn, acct, to, amount, gas_price, gas_limit) ==
    IF ~get_secret_key(acct).ok THEN Return(get_secret_key(acct))
    ELSE send_transaction_begin(conn, to, ParseAmount(amount).val, gas_price, gas_limit)

\* The guard a handler takes on state.web3_service with .read().await.
web3_lock_mode_writing(kind) == IF kind = "gas_price" THEN "write" ELSE "read"

\* The guard each handler takes on state.web3_service: all call .read().
web3_lock_mode(kind) == "read"

\* send_transaction taking state.account with .write().await.
account_lock_mode_writing(kind) == IF kind = "send_transaction" THEN "write" ELSE "read"

\* The guard each handler takes on state.account: all call .read().
account_lock_mode(kind) == "read"

\* tokio::sync::RwLock: a read guard is granted while no write guard is
\* held, a write guard while no guard at all is held.
CanLock(mode, readers, writers) ==
    IF mode = "read" THEN writers = {} ELSE readers = {} /\ writers = {}

\* The holders of the `which` side once r holds a guard of the given mode.
WithGuard(holders, r, mode, which) ==
    IF mode = which THEN holders \cup {r} ELSE holders

\* estimate_gas fetching the secret key as send_transaction does.
reads_secret_key_for_estimate(kind) == kind \in {"send_transaction", "estimate_gas"}

\* The handlers that call wallet_service.get_secret_key(&account): only
\* send_transaction does.
reads_secret_key(kind) == kind = "send_transaction"

\* The variants of AppError.
AppErrorKinds ==
    {"WalletNotFound", "WalletCreationFailed", "WalletLoadFailed",
     "InvalidPrivateKey", "InvalidPublicKey", "Web3ConnectionFailed",
     "Web3NotAvailable", "InvalidAddress", "TransactionFailed",
     "BalanceQueryFailed", "ConfigurationError", "InternalError",
     "ValidationError", "NotFound"}

\* AppError::into_response: the error_type string of each error kind.
error_type(kind) ==
    CASE kind = "WalletNotFound" -> "WALLET_NOT_FOUND"
      [] kind = "WalletCreationFailed" -> "WALLET_CREATION_FAILED"
      [] kind = "WalletLoadFailed" -> "WALLET_LOAD_FAILED"
      [] kind = "InvalidPrivateKey" -> "INVALID_PRIVATE_KEY"
      [] kind = "InvalidPublicKey" -> "INVALID_PUBLIC_KEY"
      [] kind = "Web3ConnectionFailed" -> "WEB3_CONNECTION_FAILED"
      [] kind = "Web3NotAvailable" -> "WEB3_NOT_AVAILABLE"
      [] kind = "InvalidAddress" -> "INVALID_ADDRESS"
      [] kind = "TransactionFailed" -> "TRANSACTION_FAILED"
      [] kind = "BalanceQueryFailed" -> "BALANCE_QUERY_FAILED"
      [] kind = "ConfigurationError" -> "CONFIGURATION_ERROR"
      [] kind = "InternalError" -> "INTERNAL_ERROR"
      [] kind = "ValidationError" -> "VALIDATION_ERROR"
      [] kind = "NotFound" -> "NOT_FOUND"

\* AppError::into_response: the status code of each error kind.
into_response(kind) ==
    CASE kind = "WalletNotFound" -> 404
      [] kind = "WalletCreationFailed" -> 500
      [] kind = "WalletLoadFailed" -> 500
      [] kind = "InvalidPrivateKey" -> 400
      [] kind = "InvalidPublicKey" -> 400
      [] kind = "Web3ConnectionFailed" -> 503
      [] kind = "Web3NotAvailable" -> 503
      [] kind = "InvalidAddress" -> 400
      [] kind = "TransactionFailed" -> 500
      [] kind = "BalanceQueryFailed" -> 500
      [] kind = "ConfigurationError" -> 500
      [] kind = "InternalError" -> 500
      [] kind = "ValidationError" -> 400
      [] kind = "NotFound" -> 404

\* --------------------------------------------------------------- state ----
VARIABLES
    file,           \* the account file at the configured path
    mainpc,         \* where main is: boot, saving, connect, serving, aborted, crashed
    account,        \* the Account behind Arc<RwLock<Account>> (NoAccount before)
    saved,          \* the account handed to save_account in this run
    saveResult,     \* what save_account returned in this run: none, ok, err
    fileBefore,     \* the file as this run found it
    connection,     \* Web3Service.connection is Some
    network_id,     \* Web3Service.network_id
    exitError,      \* the error main returned, "" if none
    curInit,        \* what WalletService::initialize_wallet returned in this run
    prevInit,       \* ... and in the run before
    restarts,       \* restarts so far
    req,            \* the request slots
    web3Readers,    \* slots holding a read guard of the Web3Service lock
    accountReaders, \* slots holding a read guard of the Account lock
    web3Writers,    \* slots holding the write guard of the Web3Service lock
    accountWriters, \* slots holding the write guard of the Account lock
    connectAttempts, \* calls of Web3Service::connect in this run
    rngAvailable    \* the entropy source worked when this run drew its key

procVars == <<mainpc, account, saved, saveResult, fileBefore, connection,
              exitError, curInit, prevInit, restarts, connectAttempts,
              rngAvailable>>
lockVars == <<web3Readers, accountReaders, web3Writers, accountWriters>>
vars == <<file, procVars, network_id, req, lockVars>>

NoInit == [ok |-> FALSE, err |-> "none", created |-> FALSE]
InitOk(a, created) == [ok |-> TRUE, val |-> a, created |-> created]
InitErr(kind, created) == [ok |-> FALSE, err |-> kind, created |-> created]

\* Config: ethereum.network_id values the lookup of get_network_info
\* distinguishes, and one it does not know.
NetworkIds == {1, 3, 4, 5, 11155111, 1337}

IdleReq ==
    [kind |-> "none", pc |-> "idle", addr |-> NoText, amount |-> NoText,
     gas_price |-> None, gas_limit |-> None, tx |-> None,
     calls |-> 0, failed |-> FALSE, signed |-> FALSE, submits |-> 0,
     readSecret |-> FALSE, result |-> Err("none")]

\* The files a run may find: none, a record with any field contents (a record
\* written earlier, possibly edited since) or an empty file.
InitialFiles ==
    {AbsentFile, FileOf(<<>>)} \cup {FileOf(Serialize(a)) : a \in Accounts}

Init ==
    /\ file \in InitialFiles
    /\ mainpc = "boot"
    /\ account = NoAccount
    /\ saved = NoAccount
    /\ saveResult = "none"
    /\ fileBefore = file
    /\ connection = FALSE
    /\ network_id \in NetworkIds
    /\ exitError = ""
    /\ curInit = NoInit
    /\ prevInit = NoInit
    /\ restarts = 0
    /\ req = [r \in Req |-> IdleReq]
    /\ web3Readers = {}
    /\ accountReaders = {}
    /\ web3Writers = {}
    /\ accountWriters = {}
    /\ connectAttempts = 0
    /\ rngAvailable = TRUE

\* ------------------------------------------------------------- startup ----
\* main: WalletService::initialize_wallet finds the file and loads it; then
\* validate_account.  Any error makes main return it.
BootLoad ==
    /\ mainpc = "boot"
    /\ initialize_wallet(file) = "load"
    /\ LET init == load_account(file)
           res == main_initialize_wallet(init)
       IN  /\ curInit' = IF init.ok THEN InitOk(init.val, FALSE)
                         ELSE InitErr(init.err, FALSE)
           /\ IF res.ok
              THEN /\ account' = res.val
                   /\ mainpc' = "connect"
                   /\ exitError' = exitError
              ELSE /\ account' = account
                   /\ mainpc' = "aborted"
                   /\ exitError' = res.err
    /\ UNCHANGED <<file, saved, saveResult, fileBefore, connection, prevInit,
                   restarts, connectAttempts, rngAvailable, network_id, req,
                   lockVars>>

\* main: initialize_wallet finds no file: create_account, then save_account
\* opens the file (create, truncate).
BootCreate ==
    /\ mainpc = "boot"
    /\ initialize_wallet(file) = "create"
    /\ \E s \in Scalars, entropy \in BOOLEAN, openOk \in BOOLEAN :
         LET created == create_account(s, entropy)
             opened == save_account_open(file, openOk)
         IN  /\ created.ok
             /\ rngAvailable' = entropy
             /\ saved' = created.val
             /\ IF opened.ok
                THEN /\ file' = opened.val
                     /\ mainpc' = "saving"
                     /\ UNCHANGED <<saveResult, curInit, exitError>>
                ELSE /\ file' = file
                     /\ mainpc' = "aborted"
                     /\ saveResult' = "err"
                     /\ curInit' = InitErr(opened.err, TRUE)
                     /\ exitError' = opened.err
    /\ UNCHANGED <<account, fileBefore, connection, prevInit, restarts,
                   connectAttempts, network_id, req, lockVars>>

\* save_account serializes and drops the writer; initialize_wallet returns
\* the account; main validates it.
SaveFlush ==
    /\ mainpc = "saving"
    /\ \E written \in 0..Len(Serialize(saved)) :
         LET flushed == save_account_flush(saved, written)
             init == IF flushed.result.ok THEN Ok(saved) ELSE flushed.result
             res == main_initialize_wallet(init)
         IN  /\ file' = flushed.file
             /\ saveResult' = IF flushed.result.ok THEN "ok" ELSE "err"
             /\ curInit' = IF init.ok THEN InitOk(init.val, TRUE)
                           ELSE InitErr(init.err, TRUE)
             /\ IF res.ok
                THEN /\ account' = res.val
                     /\ mainpc' = "connect"
                     /\ exitError' = exitError
                ELSE /\ account' = account
                     /\ mainpc' = "aborted"
                     /\ exitError' = res.err
    /\ UNCHANGED <<saved, fileBefore, connection, prevInit, restarts,
                   connectAttempts, rngAvailable, network_id, req, lockVars>>

\* Web3Service::connect: one attempt to open the WebSocket transport.
connect(transportOk) ==
    IF transportOk THEN [connection |-> TRUE, result |-> Ok(TRUE)]
    ELSE [connection |-> FALSE, result |-> Err("Web3ConnectionFailed")]

\* main calling connect again when it failed.
main_after_connect_retrying(result) == IF result.ok THEN "serving" ELSE "connect"

\* main after connect returned: a failure is only logged; the service goes
\* behind its lock, then create_router and start_server.
main_after_connect(result) == "serving"

\* main: web3_service.connect(), once.
Connect ==
    /\ mainpc = "connect"
    /\ \E transportOk \in BOOLEAN :
         LET c == connect(transportOk)
         IN  /\ connection' = c.connection
             /\ mainpc' = main_after_connect(c.result)
    /\ connectAttempts' = connectAttempts + 1
    /\ UNCHANGED <<file, account, saved, saveResult, fileBefore, exitError,
                   curInit, prevInit, restarts, rngAvailable, network_id, req,
                   lockVars>>

\* The process is killed (or the machine stops): memory is lost, the file
\* stays as it is.
Crash ==
    /\ mainpc \in {"saving", "connect", "serving"}
    /\ mainpc' = "crashed"
    /\ account' = NoAccount
    /\ connection' = FALSE
    /\ req' = [r \in Req |-> IdleReq]
    /\ web3Readers' = {}
    /\ accountReaders' = {}
    /\ web3Writers' = {}
    /\ accountWriters' = {}
    /\ UNCHANGED <<file, saved, saveResult, fileBefore, exitError, curInit,
                   prevInit, restarts, connectAttempts, rngAvailable, network_id>>

\* The process is started again with the same configuration.
Restart ==
    /\ mainpc \in {"aborted", "crashed"}
    /\ restarts < MaxRestarts
    /\ restarts' = restarts + 1
    /\ mainpc' = "boot"
    /\ account' = NoAccount
    /\ saved' = NoAccount
    /\ saveResult' = "none"
    /\ fileBefore' = file
    /\ connection' = FALSE
    /\ exitError' = ""
    /\ prevInit' = curInit
    /\ curInit' = NoInit
    /\ connectAttempts' = 0
    /\ rngAvailable' = TRUE
    /\ UNCHANGED <<file, network_id, req, lockVars>>

\* ------------------------------------------------------------ requests ----
\* What the requests carry: an address that parses and one that does not, an
\* amount that parses and one that does not, a gas override or none.
RequestAddresses == {FormatAddress(public_key_to_address(PubOf(1))), BadText}
RequestAmounts == {Text("decimal", 15), BadText}
GasOverrides == {None, Some(1)}

\* What the node answers to a query: an error or a number.
NodeReplies == {Err("node"), Ok(0), Ok(1)}

\* What signing answers: an error or the signed payload.
SignReplies == {Err("sign"), Ok(1)}

\* What the node answers to send_raw_transaction: one of its rejections or
\* the transaction hash.
SendReplies == {Err("insufficient funds"), Err("nonce too low"), Ok(1)}

NeedsAccount == {"wallet_balance", "estimate_gas", "send_transaction"}

\* The router hands a request to its handler, which is about to take its
\* first lock.
Begin(r, kind, pc, addr, amount, gp, gl) ==
    /\ mainpc = "serving"
    /\ req[r].pc = "idle"
    /\ req' = [req EXCEPT ![r] =
                 [IdleReq EXCEPT !.kind = kind, !.pc = pc, !.addr = addr,
                                 !.amount = amount, !.gas_price = gp,
                                 !.gas_limit = gl]]
    /\ UNCHANGED <<file, procVars, network_id, lockVars>>

\* The handler of slot r ran up to `step`: it returned (its guards are
\* dropped) or it awaits a call it has just issued, holding the guards it
\* has taken.  replyFailed: the call it was awaiting has failed.  A handler
\* that fetches the secret key does so right after it has both guards.
Proceed(r, step, replyFailed) ==
    IF step.next = "done"
    THEN /\ req' = [req EXCEPT
                      ![r].pc = "done",
                      ![r].result = step.result,
                      ![r].failed = replyFailed,
                      ![r].readSecret =
                          (@ \/ (req[r].pc = "lock_account"
                                    /\ reads_secret_key(req[r].kind)))]
         /\ web3Readers' = web3Readers \ {r}
         /\ accountReaders' = accountReaders \ {r}
         /\ web3Writers' = web3Writers \ {r}
         /\ accountWriters' = accountWriters \ {r}
    ELSE /\ req' = [req EXCEPT
                      ![r].pc = step.next,
                      ![r].tx = step.tx,
                      ![r].failed = replyFailed,
                      ![r].readSecret =
                          (@ \/ (req[r].pc = "lock_account"
                                    /\ reads_secret_key(req[r].kind))),
                      ![r].signed = (@ \/ step.next = "await_sign"),
                      ![r].calls = IF step.next \in {"await_node", "await_send"}
                                   THEN @ + 1 ELSE @,
                      ![r].submits = IF step.next = "await_send" THEN @ + 1 ELSE @]
         /\ web3Readers' =
                WithGuard(web3Readers, r, web3_lock_mode(req[r].kind), "read")
         /\ web3Writers' =
                WithGuard(web3Writers, r, web3_lock_mode(req[r].kind), "write")
         /\ accountReaders' =
                IF req[r].kind \in NeedsAccount
                THEN WithGuard(accountReaders, r, account_lock_mode(req[r].kind), "read")
                ELSE accountReaders
         /\ accountWriters' =
                IF req[r].kind \in NeedsAccount
                THEN WithGuard(accountWriters, r, account_lock_mode(req[r].kind), "write")
                ELSE accountWriters

\* handlers::account_handler::health_check
HealthCheck(r) ==
    /\ mainpc = "serving"
    /\ req[r].pc = "idle"
    /\ req' = [req EXCEPT ![r] =
                 [IdleReq EXCEPT !.kind = "health", !.pc = "done",
                                 !.result = Ok("Ethereum Wallet Server is running")]]
    /\ UNCHANGED <<file, procVars, network_id, lockVars>>

StartAccountInfo(r) ==
    Begin(r, "account_info", "lock_account", NoText, NoText, None, None)

StartNetworkInfo(r) ==
    Begin(r, "network_info", "lock_web3", NoText, NoText, None, None)

StartWalletBalance(r) ==
    Begin(r, "wallet_balance", "lock_web3", NoText, NoText, None, None)

StartAddressBalance(r) ==
    \E address \in RequestAddresses :
        Begin(r, "address_balance", "lock_web3", address, NoText, None, None)

StartGasPrice(r) ==
    Begin(r, "gas_price", "lock_web3", NoText, NoText, None, None)

StartEstimateGas(r) ==
    \E to \in RequestAddresses, amount \in RequestAmounts :
        Begin(r, "estimate_gas", "lock_web3", to, amount, None, None)

\* The Json extractor has parsed the body: amount_eth is a number.
StartSendTransaction(r) ==
    \E to \in RequestAddresses, gp \in GasOverrides, gl \in GasOverrides :
        Begin(r, "send_transaction", "lock_web3", to, Text("decimal", 15), gp, gl)

\* state.web3_service.read().await is granted.  The handlers that need no
\* account go on into the service.
AcquireWeb3Read(r) ==
    /\ mainpc = "serving"
    /\ req[r].pc = "lock_web3"
    /\ CanLock(web3_lock_mode(req[r].kind), web3Readers, web3Writers)
    /\ IF req[r].kind \in NeedsAccount
       THEN /\ req' = [req EXCEPT ![r].pc = "lock_account"]
            /\ web3Readers' =
                   WithGuard(web3Readers, r, web3_lock_mode(req[r].kind), "read")
            /\ web3Writers' =
                   WithGuard(web3Writers, r, web3_lock_mode(req[r].kind), "write")
            /\ UNCHANGED <<accountReaders, accountWriters>>
       ELSE Proceed(r,
              CASE req[r].kind = "network_info" -> get_network_info_begin(connection)
                [] req[r].kind = "address_balance" ->
                       get_balance_begin(connection, req[r].addr)
                [] req[r].kind = "gas_price" -> get_gas_price_begin(connection),
              FALSE)
    /\ UNCHANGED <<file, procVars, network_id>>

\* state.account.read().await is granted, and the handler's code up to its
\* next await.
AcquireAccountRead(r) ==
    /\ mainpc = "serving"
    /\ req[r].pc = "lock_account"
    /\ CanLock(account_lock_mode(req[r].kind), accountReaders, accountWriters)
    /\ Proceed(r,
         CASE req[r].kind = "account_info" -> Return(Ok(to_account_info(account)))
           [] req[r].kind = "wallet_balance" ->
                  get_balance_begin(connection, account.public_address)
           [] req[r].kind = "estimate_gas" ->
                  estimate_gas_handler(connection, account, req[r].addr, req[r].amount)
           [] req[r].kind = "send_transaction" ->
                  send_transaction_handler(connection, account, req[r].addr,
                      req[r].amount, req[r].gas_price, req[r].gas_limit),
         FALSE)
    /\ UNCHANGED <<file, procVars, network_id>>

\* The node answers a query (block number, balance, gas price, gas estimate).
NodeReply(r) ==
    /\ mainpc = "serving"
    /\ req[r].pc = "await_node"
    /\ \E reply \in NodeReplies :
         LET res ==
               CASE req[r].kind = "network_info" ->
                        get_network_info_end(network_id, reply)
                 [] req[r].kind = "wallet_balance" ->
                        get_balance_end(account.public_address, network_id, reply)
                 [] req[r].kind = "address_balance" ->
                        get_balance_end(req[r].addr, network_id, reply)
                 [] req[r].kind = "gas_price" -> get_gas_price_end(reply)
                 [] req[r].kind = "estimate_gas" -> estimate_gas_end(reply)
         IN  Proceed(r, Return(res), ~reply.ok)
    /\ UNCHANGED <<file, procVars, network_id>>

\* accounts().sign_transaction(..) completes.
SignReply(r) ==
    /\ mainpc = "serving"
    /\ req[r].pc = "await_sign"
    /\ \E reply \in SignReplies :
         Proceed(r, send_transaction_signed(req[r].tx, reply), ~reply.ok)
    /\ UNCHANGED <<file, procVars, network_id>>

\* The node answers send_raw_transaction.
SendReply(r) ==
    /\ mainpc = "serving"
    /\ req[r].pc = "await_send"
    /\ \E reply \in SendReplies :
         Proceed(r,
             Return(send_transaction_end(req[r].addr, ParseAmount(req[r].amount).val,
                        account.public_address, req[r].tx, reply)),
             ~reply.ok)
    /\ UNCHANGED <<file, procVars, network_id>>

\* The response is written and the slot is free again.
Respond(r) ==
    /\ mainpc = "serving"
    /\ req[r].pc = "done"
    /\ req' = [req EXCEPT ![r] = IdleReq]
    /\ UNCHANGED <<file, procVars, network_id, lockVars>>

\* The steps of the process with the requests handled in the slots S.
NextFor(S) ==
    \/ BootLoad
    \/ BootCreate
    \/ SaveFlush
    \/ Connect
    \/ Crash
    \/ Restart
    \/ \E r \in S : HealthCheck(r)
    \/ \E r \in S : StartAccountInfo(r)
    \/ \E r \in S : StartNetworkInfo(r)
    \/ \E r \in S : StartWalletBalance(r)
    \/ \E r \in S : StartAddressBalance(r)
    \/ \E r \in S : StartGasPrice(r)
    \/ \E r \in S : StartEstimateGas(r)
    \/ \E r \in S : StartSendTransaction(r)
    \/ \E r \in S : AcquireWeb3Read(r)
    \/ \E r \in S : AcquireAccountRead(r)
    \/ \E r \in S : NodeReply(r)
    \/ \E r \in S : SignReply(r)
    \/ \E r \in S : SendReply(r)
    \/ \E r \in S : Respond(r)

\* Requests are served concurrently in all the slots.
Next == NextFor(Req)

Spec == Init /\ [][Next]_vars

\* One request at a time: the startup, the file and a single handler, for
\* the properties that concern one request or none.
NextSerial == NextFor({1})

SpecSerial == Init /\ [][NextSerial]_vars

\* ============================================================== claims ====
Running(r) == req[r].pc # "idle"
Finished(r) == req[r].pc = "done"
Awaiting(r) == req[r].pc \in {"await_node", "await_sign", "await_send"}

\* The Account invariant of the data model: the public key is the one derived
\* from the secret key and the address the one derived from the public key.
AccountConsistent(a) ==
    /\ ParseSecret(a.secret_key).ok
    /\ ParsePublic(a.public_key).ok
    /\ ParseAddress(a.public_address).ok
    /\ ParsePublic(a.public_key).val = PubOf(ParseSecret(a.secret_key).val)
    /\ ParseAddress(a.public_address).val =
           public_key_to_address(ParsePublic(a.public_key).val)

\* C1: main validates the account initialize returned before it builds the
\* router: whenever the server is serving or a handler runs, the shared
\* Account is consistent, and a run whose initialize or validate failed has
\* exited without an account and without ever running a handler.
C1_ServedAccountIsValid ==
    /\ (mainpc = "serving" \/ \E r \in Req : Running(r)) =>
           /\ curInit.ok
           /\ account = curInit.val
           /\ AccountConsistent(account)
    /\ mainpc = "aborted" =>
           /\ account = NoAccount
           /\ \A r \in Req : ~Running(r)

\* C1 witness: a record loaded from the file is served to a handler.
C1_Witness ==
    /\ mainpc = "serving"
    /\ curInit.ok /\ ~curInit.created
    /\ account.public_key.form = "uncompressed"
    /\ \E r \in Req : Finished(r) /\ req[r].kind = "account_info"

\* C2: a run of initialize that created the file and succeeded is followed by
\* a run of initialize that returns the same Account.
C2_InitializeIdempotent ==
    (prevInit.ok /\ prevInit.created /\ curInit # NoInit) =>
        (curInit.ok /\ curInit.val = prevInit.val)

\* C3: the file always holds what the run found or the complete
\* serialization of the account being saved.
C3_PersistAtomic ==
    \/ file = fileBefore
    \/ saved # NoAccount /\ file = FileOf(Serialize(saved))

\* C5: once save_account has returned Ok, load_account returns the saved
\* account.
C5_RoundTrip ==
    saveResult = "ok" => load_account(file) = Ok(saved)

\* A record whose secret key is the one of a generated account and whose
\* public key or address field has been altered.
Altered(a) ==
    \E s \in Scalars :
        /\ a.secret_key = SecretToString(s)
        /\ a # create_account(s, TRUE).val

LoadedAltered == curInit.ok /\ ~curInit.created /\ Altered(curInit.val)

\* C4 as stated: every record with an altered public key or address field
\* makes validate fail with ValidationError.
C4_AlteredAlwaysValidationError ==
    LoadedAltered => (mainpc = "aborted" /\ exitError = "ValidationError")

\* C4 amended: validate rejects an altered record with ValidationError when
\* the public key field parses to another key or the address text differs
\* from the derived one, with InvalidPublicKey when the public key field does
\* not parse, and accepts a public key field that is another encoding of the
\* same key beside an unaltered address.
C4_AlteredRejectedByKind ==
    LoadedAltered =>
        LET a == curInit.val
            s == ParseSecret(a.secret_key).val
            pk == ParsePublic(a.public_key)
        IN  IF ~pk.ok
            THEN mainpc = "aborted" /\ exitError = "InvalidPublicKey"
            ELSE IF \/ pk.val # PubOf(s)
                    \/ a.public_address # FormatAddress(public_key_to_address(PubOf(s)))
                 THEN mainpc = "aborted" /\ exitError = "ValidationError"
                 ELSE mainpc # "aborted" /\ exitError = ""

\* C4 witness: a record with only its address field altered was rejected.
C4_Witness ==
    /\ LoadedAltered
    /\ curInit.val.public_key = create_account(1, TRUE).val.public_key
    /\ curInit.val.public_address.form = "noprefix"
    /\ exitError = "ValidationError"

ChainKinds ==
    {"network_info", "wallet_balance", "address_balance", "gas_price",
     "estimate_gas", "send_transaction"}

Unavailable(r) ==
    /\ req[r].result = Err("Web3NotAvailable")
    /\ into_response(req[r].result.err) = 503

\* C6 as stated: without a connection health and account info succeed and
\* every chain-dependent endpoint answers Web3NotAvailable (503).
C6_AllChainEndpointsUnavailable ==
    \A r \in Req :
        (~connection /\ Finished(r)) =>
            IF req[r].kind \in ChainKinds THEN Unavailable(r) ELSE req[r].result.ok

\* C6 amended: as stated, except that a gas estimate whose amount is not a
\* number answers ValidationError (400); without a connection no handler
\* issues a call.
C6_ChainEndpointsUnavailable ==
    \A r \in Req :
        ~connection =>
            /\ ~Awaiting(r)
            /\ req[r].calls = 0
            /\ Finished(r) =>
                 IF req[r].kind \notin ChainKinds THEN req[r].result.ok
                 ELSE IF req[r].kind = "estimate_gas" /\ ~ParseAmount(req[r].amount).ok
                      THEN /\ req[r].result = Err("ValidationError")
                           /\ into_response(req[r].result.err) = 400
                      ELSE Unavailable(r)

\* C6 witness: the connection failed, the server serves and a transaction
\* was answered unavailable.
C6_Witness ==
    /\ mainpc = "serving"
    /\ ~connection
    /\ \E r \in Req :
         Finished(r) /\ req[r].kind = "send_transaction" /\ Unavailable(r)

\* C7: a send_transaction request handled without a connection ends with
\* Web3NotAvailable whatever it carries, and nothing was signed or submitted.
C7_SendWithoutConnection ==
    \A r \in Req :
        (/\ req[r].kind = "send_transaction"
         /\ ~connection
         /\ req[r].pc \notin {"idle", "lock_web3", "lock_account"}) =>
            /\ Finished(r)
            /\ req[r].result = Err("Web3NotAvailable")
            /\ ~req[r].signed
            /\ req[r].submits = 0
            /\ req[r].calls = 0

\* C7 witness: such a request with a destination that does not parse.
C7_Witness ==
    \E r \in Req :
        /\ req[r].kind = "send_transaction"
        /\ ~connection
        /\ Finished(r)
        /\ ~ParseAddress(req[r].addr).ok
        /\ req[r].result = Err("Web3NotAvailable")

UnparsableBalance(r) ==
    /\ req[r].kind = "address_balance"
    /\ ~ParseAddress(req[r].addr).ok
    /\ req[r].pc \notin {"idle", "lock_web3"}

\* C8 as stated: get_balance of a text that does not parse ends with
\* InvalidAddress and no node call, connected or not.
C8_InvalidAddressAlways ==
    \A r \in Req :
        UnparsableBalance(r) =>
            /\ Finished(r)
            /\ req[r].calls = 0
            /\ req[r].result = Err("InvalidAddress")

\* C8 amended: it ends with InvalidAddress when there is a connection and
\* with Web3NotAvailable when there is none, without a node call either way.
C8_InvalidAddressWhenConnected ==
    \A r \in Req :
        UnparsableBalance(r) =>
            /\ Finished(r)
            /\ req[r].calls = 0
            /\ req[r].result =
                   IF connection THEN Err("InvalidAddress") ELSE Err("Web3NotAvailable")

\* C8 witness: a connected get_balance of a text that does not parse.
C8_Witness ==
    \E r \in Req :
        /\ UnparsableBalance(r)
        /\ connection
        /\ req[r].result = Err("InvalidAddress")

\* C9: a balance, gas price, gas estimate or transaction request whose call
\* failed has ended with an error; a request issues at most one node call
\* and submits at most one raw transaction; a success follows one call that
\* did not fail.
C9_NoRetryNoDefault ==
    \A r \in Req :
        req[r].kind \in ChainKinds \ {"network_info"} =>
            /\ req[r].failed => (Finished(r) /\ ~req[r].result.ok)
            /\ req[r].calls <= 1
            /\ req[r].submits <= 1
            /\ (Finished(r) /\ req[r].result.ok) => (req[r].calls = 1 /\ ~req[r].failed)

\* C9 witness: a balance query the node failed ended with BalanceQueryFailed.
C9_Witness ==
    \E r \in Req :
        /\ req[r].kind = "wallet_balance"
        /\ req[r].failed
        /\ req[r].calls = 1
        /\ req[r].result = Err("BalanceQueryFailed")

\* The lookup of the data model: 1 Mainnet, 3 Ropsten, 4 Rinkeby, 5 Goerli,
\* 11155111 Sepolia, else Unknown.
ExpectedNetworkName(id) ==
    IF id = 1 THEN "Mainnet"
    ELSE IF id = 3 THEN "Ropsten"
    ELSE IF id = 4 THEN "Rinkeby"
    ELSE IF id = 5 THEN "Goerli"
    ELSE IF id = 11155111 THEN "Sepolia"
    ELSE "Unknown"

\* C10: with a connection get_network_info succeeds whether or not the block
\* number call failed, with the configured id, the name of the lookup and
\* the endpoint; the height is absent exactly when the call failed.
C10_NetworkInfoAbsorbsFailure ==
    \A r \in Req :
        (req[r].kind = "network_info" /\ Finished(r) /\ connection) =>
            /\ req[r].result.ok
            /\ req[r].result.val.network_id = network_id
            /\ req[r].result.val.network_name = ExpectedNetworkName(network_id)
            /\ req[r].result.val.rpc_url = RpcUrl
            /\ req[r].failed <=> (req[r].result.val.block_number = None)
            /\ req[r].calls = 1

\* C10 witness: the block number call failed on Sepolia and the answer is a
\* success without a height.
C10_Witness ==
    \E r \in Req :
        /\ req[r].kind = "network_info"
        /\ Finished(r)
        /\ req[r].failed
        /\ network_id = 11155111
        /\ req[r].result.ok
        /\ req[r].result.val.network_name = "Sepolia"
        /\ req[r].result.val.block_number = None

\* C11: while the server serves, under any interleaving of the requests, the
\* shared Account is the one startup validated, every handler that uses the
\* Account across a node call holds a read guard of its lock, and nothing
\* holds its write guard.
C11_AccountImmutable ==
    mainpc = "serving" =>
        /\ account = curInit.val
        /\ accountWriters = {}
        /\ \A r \in Req :
             (req[r].kind \in NeedsAccount /\ Awaiting(r)) => r \in accountReaders

\* C11 witness: two requests of different kinds hold the Account read guard
\* at once, one of them a transaction awaiting the node.
C11_Witness ==
    /\ mainpc = "serving"
    /\ accountReaders = {1, 2}
    /\ req[1].kind = "send_transaction" /\ req[1].pc = "await_send"
    /\ req[2].kind = "wallet_balance" /\ req[2].pc = "await_node"
    /\ account = curInit.val

\* C12: connect is called exactly once in a run, before any request is
\* handled; while the server serves nothing holds the write guard of the
\* Web3Service lock and the connection field keeps the value connect left,
\* present or absent.
C12_ConnectOnceAtStartup ==
    /\ [](/\ (mainpc = "serving" \/ \E r \in Req : Running(r)) =>
               (connectAttempts = 1 /\ web3Writers = {})
          /\ mainpc \in {"boot", "saving", "connect"} =>
               (connectAttempts = 0 /\ ~connection))
    /\ [][(mainpc = "serving" /\ mainpc' = "serving") =>
              (connection' = connection /\ connectAttempts' = connectAttempts)]_vars

\* C12 witness: the one attempt failed and a later gas price request found
\* the connection still absent.
C12_Witness ==
    /\ mainpc = "serving"
    /\ connectAttempts = 1
    /\ ~connection
    /\ \E r \in Req :
         /\ Finished(r)
         /\ req[r].kind = "gas_price"
         /\ req[r].result = Err("Web3NotAvailable")

SendFailed(r) ==
    req[r].kind = "send_transaction" /\ Finished(r) /\ req[r].failed

SignFailures == {e.err : e \in {x \in SignReplies : ~x.ok}}
NodeRejections == {e.err : e \in {x \in SendReplies : ~x.ok}}

\* C13 as stated: a failed signing ends the call before anything is
\* submitted, a rejected submission carries the node's text, a success
\* follows both steps, and the two failures are reported with different
\* error kinds.
C13_DistinctFailureKinds ==
    \A r \in Req :
        /\ (req[r].kind = "send_transaction" /\ req[r].failed) => Finished(r)
        /\ (SendFailed(r) /\ req[r].submits = 0) =>
               req[r].result.err #
                   send_transaction_end(req[r].addr, 0, NoText, req[r].tx,
                                        Err("nonce too low")).err
        /\ (SendFailed(r) /\ req[r].submits = 1) =>
               /\ req[r].result.text \in NodeRejections
               /\ req[r].result.err #
                      send_transaction_signed(req[r].tx, Err("sign")).result.err

\* C13 amended: both failures are reported with the one kind
\* TransactionFailed (500) and differ in the message only: "Failed to sign
\* transaction" with the signer's text and nothing submitted, "Failed to send
\* transaction" with the node's text after one submission; a success, with
\* the node's hash and status Pending, follows a signing and one submission
\* that both succeeded.
C13_FailurePointsByMessage ==
    \A r \in Req :
        req[r].kind = "send_transaction" =>
            /\ req[r].failed => Finished(r)
            /\ req[r].submits > 0 => req[r].signed
            /\ (SendFailed(r) /\ req[r].submits = 0) =>
                   /\ req[r].signed
                   /\ req[r].result.err = "TransactionFailed"
                   /\ req[r].result.prefix = "Failed to sign transaction"
                   /\ req[r].result.text \in SignFailures
            /\ (SendFailed(r) /\ req[r].submits = 1) =>
                   /\ req[r].result.err = "TransactionFailed"
                   /\ req[r].result.prefix = "Failed to send transaction"
                   /\ req[r].result.text \in NodeRejections
            /\ SendFailed(r) => into_response(req[r].result.err) = 500
            /\ (Finished(r) /\ req[r].result.ok) =>
                   /\ req[r].signed /\ req[r].submits = 1 /\ ~req[r].failed
                   /\ req[r].result.val.status = "Pending"
                   /\ Ok(req[r].result.val.transaction_hash) \in SendReplies

\* C13 witness: the node rejected a signed transaction for its nonce.
C13_Witness ==
    \E r \in Req :
        /\ SendFailed(r)
        /\ req[r].signed
        /\ req[r].submits = 1
        /\ req[r].result.text = "nonce too low"

HandlerFailed(r) == Finished(r) /\ ~req[r].result.ok

\* Where the failure of a finished request comes from: a call that failed
\* (a node query, the signing, the submission), the absent connection, or
\* the caller's input.
Origin(r) ==
    IF req[r].failed THEN "call"
    ELSE IF req[r].kind = "estimate_gas" /\ ~ParseAmount(req[r].amount).ok
         THEN "input"
    ELSE IF ~connection THEN "connection"
    ELSE "input"

DistinctKind(r) ==
    /\ req[r].result.err \in AppErrorKinds
    /\ \A k \in AppErrorKinds :
         error_type(k) = error_type(req[r].result.err) => k = req[r].result.err

\* C14 as stated: a failure caused by the input answers 4xx, one caused by
\* the absent connection 503, and every failed call, the gas price query
\* included, 5xx other than 503; each under its own error kind.
C14_StatusClassByOrigin ==
    \A r \in Req :
        HandlerFailed(r) =>
            LET status == into_response(req[r].result.err) IN
            /\ DistinctKind(r)
            /\ Origin(r) = "input" => status \in 400..499
            /\ Origin(r) = "connection" => status = 503
            /\ Origin(r) = "call" => (status \in 500..599 /\ status # 503)

\* C14 amended: as stated, except that a failed gas price query is reported
\* as Web3ConnectionFailed and answers 503; a failed balance query, gas
\* estimate, signing or submission answers 500.
C14_StatusClassGasPrice503 ==
    \A r \in Req :
        HandlerFailed(r) =>
            LET status == into_response(req[r].result.err) IN
            /\ DistinctKind(r)
            /\ Origin(r) = "input" =>
                   /\ status = 400
                   /\ \/ ~ParseAmount(req[r].amount).ok
                      \/ ~ParseAddress(req[r].addr).ok
            /\ Origin(r) = "connection" =>
                   (status = 503 /\ req[r].result.err = "Web3NotAvailable")
            /\ (Origin(r) = "call" /\ req[r].kind = "gas_price") =>
                   (status = 503 /\ req[r].result.err = "Web3ConnectionFailed")
            /\ (Origin(r) = "call" /\ req[r].kind # "gas_price") => status = 500

\* C14 witness: the node failed a gas estimate and the answer is a 500.
C14_Witness ==
    \E r \in Req :
        /\ HandlerFailed(r)
        /\ req[r].kind = "estimate_gas"
        /\ Origin(r) = "call"
        /\ into_response(req[r].result.err) = 500

\* C15: whatever gas price and gas limit a transaction request carries, the
\* parameters built, signed and submitted are the destination and the value
\* with gas price and gas limit left at their defaults, and the record
\* returned is made of the sender, the destination, the amount, no gas price,
\* no gas limit and Pending: nothing depends on the overrides.
C15_GasOverridesInert ==
    \A r \in Req :
        req[r].kind = "send_transaction" =>
            /\ req[r].pc \in {"await_sign", "await_send"} =>
                   req[r].tx = Some([to |-> ParseAddress(req[r].addr).val,
                                     amount |-> ParseAmount(req[r].amount).val,
                                     gas_price |-> None, gas |-> None])
            /\ (Finished(r) /\ req[r].result.ok) =>
                   req[r].result.val =
                       [transaction_hash |-> req[r].result.val.transaction_hash,
                        from |-> account.public_address,
                        to |-> req[r].addr,
                        amount_eth |-> ParseAmount(req[r].amount).val,
                        gas_price |-> None,
                        gas_limit |-> None,
                        status |-> "Pending"]

\* C15 witness: a request carrying both overrides was submitted and answered
\* with a record without gas price and gas limit.
C15_Witness ==
    \E r \in Req :
        /\ req[r].kind = "send_transaction"
        /\ req[r].gas_price = Some(1)
        /\ req[r].gas_limit = Some(1)
        /\ Finished(r)
        /\ req[r].result.ok
        /\ req[r].result.val.gas_price = None

\* The strings a successful response carries.
ResponseTexts(r) ==
    IF ~(Finished(r) /\ req[r].result.ok) THEN {}
    ELSE CASE req[r].kind = "account_info" ->
                  {req[r].result.val.public_key, req[r].result.val.address}
           [] req[r].kind \in {"wallet_balance", "address_balance"} ->
                  {req[r].result.val.address}
           [] req[r].kind = "send_transaction" ->
                  {req[r].result.val.from, req[r].result.val.to}
           [] OTHER -> {}

\* C16: the Web3Service holds a connection flag and a network id and nothing
\* else, and no step of a serving process, the steps of send_transaction on
\* success and on failure included, changes them; the secret key is fetched
\* from the Account by the send_transaction handler and by no other, and no
\* response carries the secret key field.
C16_NoKeyMaterialInChainClient ==
    /\ [](/\ connection \in BOOLEAN
          /\ network_id \in NetworkIds
          /\ \A r \in Req :
               /\ req[r].readSecret => req[r].kind = "send_transaction"
               /\ (req[r].kind = "send_transaction" /\ req[r].signed) =>
                      req[r].readSecret
               /\ account.secret_key \notin ResponseTexts(r))
    /\ [][(mainpc = "serving" /\ mainpc' = "serving") =>
              UNCHANGED <<connection, network_id>>]_vars

\* C16 witness: a transaction whose submission the node rejected, after the
\* handler fetched the key, with the connection still there.
C16_Witness ==
    \E r \in Req :
        /\ SendFailed(r)
        /\ req[r].readSecret
        /\ req[r].submits = 1
        /\ connection

\* C17: a run that draws its key while the entropy source is unavailable
\* ends with KeyGenerationFailed: no account is made, nothing is saved, the
\* file stays as it was and the server never serves.
C17_KeyGenerationFailsWithoutEntropy ==
    ~rngAvailable =>
        /\ saved = NoAccount
        /\ file = fileBefore
        /\ mainpc \notin {"saving", "connect", "serving"}
        /\ mainpc = "aborted" => exitError = "KeyGenerationFailed"

\* C18: in a run that found the file present initialize only loads: the
\* file keeps its content, no account is created or saved, and content that
\* does not load ends the run with WalletLoadFailed and without an account.
\* The file changes only in a run that found it absent.
C18_InitializeNeverOverwrites ==
    /\ fileBefore.exists =>
           /\ file = fileBefore
           /\ saved = NoAccount
           /\ saveResult = "none"
           /\ curInit # NoInit =>
                  /\ ~curInit.created
                  /\ curInit.ok <=> load_account(fileBefore).ok
                  /\ ~curInit.ok =>
                         /\ mainpc = "aborted"
                         /\ exitError = "WalletLoadFailed"
                         /\ account = NoAccount
    /\ file # fileBefore => (~fileBefore.exists /\ saved # NoAccount)

\* C18 witness: an empty file made the run end with WalletLoadFailed and is
\* still the empty file.
C18_Witness ==
    /\ fileBefore = FileOf(<<>>)
    /\ file = fileBefore
    /\ mainpc = "aborted"
    /\ exitError = "WalletLoadFailed"

\* C19: the handlers hold read guards only, the Web3Service guard before the
\* Account guard, and keep them while suspended on a call; so whatever the
\* other requests hold or await, a request waiting for a guard can take it,
\* a free slot can answer a health check, and a request that has its answer
\* can return it: no request waits for another.
C19_RequestsNeverBlock ==
    /\ web3Writers = {} /\ accountWriters = {}
    /\ accountReaders \subseteq web3Readers
    /\ \A r \in Req :
         /\ Awaiting(r) =>
                /\ r \in web3Readers
                /\ req[r].kind \in NeedsAccount <=> r \in accountReaders
         /\ req[r].pc = "lock_account" =>
                (r \in web3Readers <=> req[r].kind \in NeedsAccount)
         /\ mainpc = "serving" =>
                /\ req[r].pc = "idle" => ENABLED HealthCheck(r)
                /\ req[r].pc = "lock_web3" => ENABLED AcquireWeb3Read(r)
                /\ req[r].pc = "lock_account" => ENABLED AcquireAccountRead(r)
                /\ req[r].pc = "done" => ENABLED Respond(r)

\* C19 witness: one request is suspended on the node holding both guards
\* while an account-info request is about to take the Account guard.
C19_Witness ==
    /\ mainpc = "serving"
    /\ req[1].kind = "send_transaction" /\ req[1].pc = "await_send"
    /\ 1 \in accountReaders /\ 1 \in web3Readers
    /\ req[2].kind = "account_info" /\ req[2].pc = "lock_account"

====
